---------------------------- MODULE Spec2Model ----------------------------
(***************************************************************************)
(* Model of ml_pipeline/preprocess.py: the module-level list STOP_WORDS    *)
(* and the function clean_text.                                            *)
(*                                                                         *)
(* A Python string is a sequence of characters; a character is written as  *)
(* a one-character TLA+ string, or by its code point ("U+00A0") when it    *)
(* is outside printable ASCII.  An argument of clean_text is a record      *)
(*   [kind, chars, num]   kind \in {"None", "str", "int", "bytes"}         *)
(* because Python lets a caller pass any object.  clean_text is modelled   *)
(* statement by statement so that several calls can be interleaved.        *)
(***************************************************************************)
EXTENDS Naturals, Sequences, FiniteSets

VARIABLES
  STOP_WORDS,      \* the module-level list (a Python list is mutable)
  arg,             \* arg[c]: the object call c was invoked with
  text,            \* text[c]: the local variable text of call c
  words,           \* words[c]: the local variable words of call c
  filtered_words,  \* filtered_words[c]: the local variable filtered_words
  pc,              \* pc[c]: the statement call c executes next
  ret,             \* ret[c]: the string call c returned
  exc              \* exc[c]: the exception call c raised ("" for none)

vars == <<STOP_WORDS, arg, text, words, filtered_words, pc, ret, exc>>

----------------------------------------------------------------------------
(* Bounds of the model.                                                    *)

\* longest exhaustively enumerated input string of a single call
MaxLen == 5
\* longest exhaustively enumerated input string of two concurrent calls
MaxLenConc == 2

----------------------------------------------------------------------------
(* Characters.                                                             *)

AsciiUpper ==
  <<"A", "B", "C", "D", "E", "F", "G", "H", "I", "J", "K", "L", "M",
    "N", "O", "P", "Q", "R", "S", "T", "U", "V", "W", "X", "Y", "Z">>

AsciiLower ==
  <<"a", "b", "c", "d", "e", "f", "g", "h", "i", "j", "k", "l", "m",
    "n", "o", "p", "q", "r", "s", "t", "u", "v", "w", "x", "y", "z">>

\* string.punctuation: the 32 ASCII punctuation characters (U+0060 is the
\* grave accent, which a TLA+ string cannot hold)
Punctuation ==
  {"!", "\"", "#", "$", "%", "&", "'", "(", ")", "*", "+", ",", "-", ".",
   "/", ":", ";", "<", "=", ">", "?", "@", "[", "\\", "]", "^", "_",
   "U+0060",
   "{", "|", "}", "~"}

\* the characters str.split() and str.strip() treat as whitespace
\* (those for which str.isspace() is true)
Whitespace ==
  {" ", "\t", "\n", "\r", "\f", "U+000B", "U+001C", "U+001D", "U+001E",
   "U+001F", "U+0085", "U+00A0", "U+1680", "U+2000", "U+2001", "U+2002",
   "U+2003", "U+2004", "U+2005", "U+2006", "U+2007", "U+2008", "U+2009",
   "U+200A", "U+2028", "U+2029", "U+202F", "U+205F", "U+3000"}

\* str.lower() on one character.  ASCII capitals map to their small letter;
\* U+0130 (capital I with dot above) maps to two characters; a character
\* without a lowercase mapping (digits, punctuation, whitespace, and capitals
\* such as U+1D400 MATHEMATICAL BOLD CAPITAL A) is left as it is.
LowerChar(ch) ==
  IF \E i \in DOMAIN AsciiUpper : AsciiUpper[i] = ch
    THEN <<AsciiLower[CHOOSE i \in DOMAIN AsciiUpper : AsciiUpper[i] = ch]>>
    ELSE IF ch = "U+0130" THEN <<"i", "U+0307">> ELSE <<ch>>

----------------------------------------------------------------------------
(* The module-level stop-word list, as the module body creates it.         *)

InitialStopWords ==
  << <<"h", "e", "l", "p">>, <<"i">>, <<"t", "h", "i", "n", "k">>,
     <<"g", "o", "t">>, <<"m", "y">>, <<"m", "e">>, <<"t", "h", "e">>,
     <<"a">>, <<"a", "n">>,
     <<"p", "l", "e", "a", "s", "e">>,
     <<"s", "o", "m", "e", "b", "o", "d", "y">>, <<"d", "o">>,
     <<"d", "o", "e", "s">>, <<"i", "s">>, <<"a", "m">>, <<"a", "r", "e">> >>

----------------------------------------------------------------------------
(* Python objects passed to clean_text.                                    *)

None == [kind |-> "None", chars |-> <<>>, num |-> 0]

Str(s) == [kind |-> "str", chars |-> s, num |-> 0]

Int(n) == [kind |-> "int", chars |-> <<>>, num |-> n]

Bytes(s) == [kind |-> "bytes", chars |-> s, num |-> 0]

----------------------------------------------------------------------------
(* The expressions of clean_text.                                          *)

\* `not text`: None, "", 0 and b"" are falsy
Falsy(v) ==
  \/ v.kind = "None"
  \/ v.kind \in {"str", "bytes"} /\ v.chars = <<>>
  \/ v.kind = "int" /\ v.num = 0

\* whether text.lower() raises AttributeError: int has no attribute lower
LowerRaises(v) == v.kind \notin {"str", "bytes"}

RECURSIVE LowerSeq(_)
LowerSeq(s) ==
  IF s = <<>> THEN <<>> ELSE LowerChar(Head(s)) \o LowerSeq(Tail(s))

\* text.lower() with the result discarded: text is left as it was
LowerDiscarded(v) == v

\* text.lower(): str.lower() or bytes.lower(), the type is kept
Lower(v) == [v EXCEPT !.chars = LowerSeq(v.chars)]

\* whether re.sub(<str pattern>, "", text) raises TypeError: a string
\* pattern cannot be used on a bytes-like object
SubRaises(v) == v.kind # "str"

\* a character class built from string.punctuation without re.escape: the
\* backslash then escapes the closing bracket that follows it and is
\* itself no longer a member of the class
SubUnescaped(v) ==
  [v EXCEPT !.chars = SelectSeq(v.chars,
                         LAMBDA ch : ch \notin Punctuation \ {"\\"})]

\* punctuation replaced by a space instead of by the empty string
SubWithSpace(v) ==
  [v EXCEPT !.chars = [i \in DOMAIN v.chars |->
                          IF v.chars[i] \in Punctuation THEN " "
                                                        ELSE v.chars[i]]]

\* re.sub(f"[{re.escape(string.punctuation)}]", "", text)
Sub(v) ==
  [v EXCEPT !.chars = SelectSeq(v.chars, LAMBDA ch : ch \notin Punctuation)]

RECURSIVE SplitFrom(_, _, _)
SplitFrom(s, cur, out) ==
  IF s = <<>>
    THEN IF cur = <<>> THEN out ELSE Append(out, cur)
    ELSE IF Head(s) \in Whitespace
      THEN SplitFrom(Tail(s), <<>>, IF cur = <<>> THEN out ELSE Append(out, cur))
      ELSE SplitFrom(Tail(s), Append(cur, Head(s)), out)

RECURSIVE SplitOnSep(_, _, _)
SplitOnSep(s, cur, out) ==
  IF s = <<>>
    THEN Append(out, cur)
    ELSE IF Head(s) = " "
      THEN SplitOnSep(Tail(s), <<>>, Append(out, cur))
      ELSE SplitOnSep(Tail(s), Append(cur, Head(s)), out)

\* text.split(" "): every single space separates, empty strings are kept
SplitSingleSpace(s) == SplitOnSep(s, <<>>, <<>>)

\* text.split(): split on runs of whitespace, no empty strings
Split(s) == SplitFrom(s, <<>>, <<>>)

\* w in lst, for a list of strings
InList(w, lst) == \E i \in DOMAIN lst : lst[i] = w

\* whether s occurs in w as a substring
Contains(w, s) ==
  \E i \in 0..(Len(w) - Len(s)) : SubSeq(w, i + 1, i + Len(s)) = s

\* a filter that drops every word containing a stop word as a substring
FilterSubstring(ws, stop) ==
  SelectSeq(ws, LAMBDA w : \A i \in DOMAIN stop : ~Contains(w, stop[i]))

\* a filter that blanks a stop word instead of dropping it
FilterBlanking(ws, stop) ==
  [i \in DOMAIN ws |-> IF InList(ws[i], stop) THEN <<>> ELSE ws[i]]

\* lst.remove(w): lst without the first occurrence of w
RemoveFirst(lst, w) ==
  LET k == CHOOSE i \in DOMAIN lst :
             lst[i] = w /\ \A j \in 1..(i - 1) : lst[j] # w
  IN  SubSeq(lst, 1, k - 1) \o SubSeq(lst, k + 1, Len(lst))

RECURSIVE RemoveWhileIterating(_, _, _)
RemoveWhileIterating(ws, i, stop) ==
  IF i > Len(ws) THEN ws
  ELSE IF InList(ws[i], stop)
    THEN RemoveWhileIterating(RemoveFirst(ws, ws[i]), i + 1, stop)
    ELSE RemoveWhileIterating(ws, i + 1, stop)

\* for w in words: if w in STOP_WORDS: words.remove(w)
\* (removal during iteration skips the element after each removed one)
FilterRemoving(ws, stop) == RemoveWhileIterating(ws, 1, stop)

\* [w for w in words if w not in STOP_WORDS]
Filter(ws, stop) == SelectSeq(ws, LAMBDA w : ~InList(w, stop))

\* " ".join(filtered_words)
RECURSIVE Join(_)
Join(ws) ==
  IF ws = <<>> THEN <<>>
  ELSE IF Len(ws) = 1 THEN ws[1]
  ELSE ws[1] \o <<" ">> \o Join(Tail(ws))

RECURSIVE LStrip(_)
LStrip(s) ==
  IF s # <<>> /\ Head(s) \in Whitespace THEN LStrip(Tail(s)) ELSE s

RECURSIVE RStrip(_)
RStrip(s) ==
  IF s # <<>> /\ s[Len(s)] \in Whitespace
    THEN RStrip(SubSeq(s, 1, Len(s) - 1)) ELSE s

\* str.strip()
Strip(s) == LStrip(RStrip(s))

\* the outcome of a call: the returned string, or the exception raised
Returned(s) == [exc |-> "", val |-> s]

Raised(e) == [exc |-> e, val |-> <<>>]

\* clean_text(text), run alone from the first statement to the last
clean_text(v) ==
  IF Falsy(v) THEN Returned(<<>>)
  ELSE IF LowerRaises(v) THEN Raised("AttributeError")
  ELSE IF SubRaises(Lower(v)) THEN Raised("TypeError")
  ELSE Returned(Strip(Join(Filter(Split(Sub(Lower(v)).chars),
                                  InitialStopWords))))

----------------------------------------------------------------------------
(* Inputs.                                                                 *)

\* the three inputs of the __main__ block, and inputs with the characters
\* and words the exhaustive alphabet leaves out

In_Ribs ==
  <<"H", "e", "l", "p", "!", " ", "I", " ", "t", "h", "i", "n", "k", " ", "i", " ", "g", "o", "t", " ", "m", "y", " ", "r", "i", "b", "s", " ", "f", "r", "a", "c", "t", "u", "r", "e", "d", ".">>

Out_Ribs ==
  <<"r", "i", "b", "s", " ", "f", "r", "a", "c", "t", "u", "r", "e", "d">>

In_Choking ==
  <<"P", "l", "e", "a", "s", "e", " ", "h", "e", "l", "p", ",", " ", "s", "o", "m", "e", "b", "o", "d", "y", " ", "i", "s", " ", "c", "h", "o", "k", "i", "n", "g", "!">>

Out_Choking ==
  <<"c", "h", "o", "k", "i", "n", "g">>

In_Cut ==
  <<"I", " ", "h", "a", "v", "e", " ", "a", " ", "m", "i", "n", "o", "r", " ", "c", "u", "t", " ", "o", "n", " ", "m", "y", " ", "f", "i", "n", "g", "e", "r", ".">>

Out_Cut ==
  <<"h", "a", "v", "e", " ", "m", "i", "n", "o", "r", " ", "c", "u", "t", " ", "o", "n", " ", "f", "i", "n", "g", "e", "r">>

In_Blank ==
  <<" ", " ", " ">>

Out_Blank ==
  <<>>

In_Dont ==
  <<"D", "o", "n", "'", "t", " ", "s", "t", "o", "p", ".">>

Out_Dont ==
  <<"d", "o", "n", "t", " ", "s", "t", "o", "p">>

In_Goodbye ==
  <<"g", "o", "o", "d", "-", "b", "y", "e">>

Out_Goodbye ==
  <<"g", "o", "o", "d", "b", "y", "e">>

In_HelpBang ==
  <<"h", "e", "l", "p", "!">>

Out_HelpBang ==
  <<>>

In_AM ==
  <<"a", ".", "m", ".">>

Out_AM ==
  <<>>

In_HeLp ==
  <<"h", "e", "-", "l", "p">>

Out_HeLp ==
  <<>>

In_Im ==
  <<"I", "'", "m">>

Out_Im ==
  <<"i", "m">>

In_Upper ==
  <<"H", "E", "L", "P", " ", "P", "l", "e", "a", "s", "e", " ", "n", "o", "w">>

Out_Upper ==
  <<"n", "o", "w">>

In_AllStop ==
  <<"h", "e", "l", "p", " ", "i", " ", "t", "h", "i", "n", "k", " ", "g", "o", "t", " ", "m", "y", " ", "m", "e", " ", "t", "h", "e", " ", "a", " ", "a", "n", " ", "p", "l", "e", "a", "s", "e", " ", "s", "o", "m", "e", "b", "o", "d", "y", " ", "d", "o", " ", "d", "o", "e", "s", " ", "i", "s", " ", "a", "m", " ", "a", "r", "e">>

Out_AllStop ==
  <<>>

In_Backslash ==
  <<"a", "\\", "b", " ", "[", "x", "]">>

Out_Backslash ==
  <<"a", "b", " ", "x">>

In_Nbsp ==
  <<"\t", "x", "U+00A0", "y", "\n">>

Out_Nbsp ==
  <<"x", " ", "y">>

In_MathA ==
  <<"U+1D400", " ", "B">>

Out_MathA ==
  <<"U+1D400", " ", "b">>

In_IDot ==
  <<"U+0130">>

Out_IDot ==
  <<"i", "U+0307">>

In_Edges ==
  <<" ", "A", " ", ".", ".", " ", "x", "\t", "\t", "a", "m", " ", "a", " ", "y", " ", "t", "h", "e", " ">>

Out_Edges ==
  <<"x", " ", "y">>

\* each sample input with what the Python function returns for it
SampleRuns ==
  { <<In_Ribs, Out_Ribs>>, <<In_Choking, Out_Choking>>, <<In_Cut, Out_Cut>>,
    <<In_Blank, Out_Blank>>, <<In_Dont, Out_Dont>>,
    <<In_Goodbye, Out_Goodbye>>, <<In_HelpBang, Out_HelpBang>>,
    <<In_AM, Out_AM>>, <<In_HeLp, Out_HeLp>>, <<In_Im, Out_Im>>,
    <<In_Upper, Out_Upper>>, <<In_AllStop, Out_AllStop>>,
    <<In_Backslash, Out_Backslash>>, <<In_Nbsp, Out_Nbsp>>,
    <<In_MathA, Out_MathA>>, <<In_IDot, Out_IDot>>,
    <<In_Edges, Out_Edges>> }

Samples == {r[1] : r \in SampleRuns}

\* the alphabet of the exhaustively enumerated strings: letters that spell
\* the stop words "a" and "am", a capital, a letter of no stop word, two
\* whitespace characters and a punctuation character
Alphabet == {"a", "m", "A", "x", " ", "\t", "."}

AlphabetConc == {"a", "A", " ", "."}

StringsUpTo(alphabet, n) == UNION {[1..k -> alphabet] : k \in 0..n}

\* objects that are not strings: None, numbers, bytes
NonStrings ==
  {None, Int(0), Int(5), Bytes(<<>>), Bytes(<<"a">>), Bytes(<<"A", "!">>)}

Inputs ==
  {Str(s) : s \in StringsUpTo(Alphabet, MaxLen) \cup Samples} \cup NonStrings

InputsConc ==
  {Str(s) : s \in StringsUpTo(AlphabetConc, MaxLenConc)}
    \cup {None, Int(5), Bytes(<<"a">>)}

----------------------------------------------------------------------------
(* The state machine: each call runs clean_text one statement at a time.   *)

Calls == DOMAIN pc

InitCalls(ids, inputs) ==
  /\ STOP_WORDS = InitialStopWords
  /\ arg \in [ids -> inputs]
  /\ text = arg
  /\ words = [c \in ids |-> <<>>]
  /\ filtered_words = [c \in ids |-> <<>>]
  /\ pc = [c \in ids |-> "guard"]
  /\ ret = [c \in ids |-> <<>>]
  /\ exc = [c \in ids |-> ""]

\* one call
Init == InitCalls({1}, Inputs)

\* two calls running concurrently
InitConc == InitCalls({1, 2}, InputsConc)

\* if not text: return ""
Guard(c) ==
  /\ pc[c] = "guard"
  /\ IF Falsy(text[c])
       THEN /\ pc' = [pc EXCEPT ![c] = "done"]
            /\ ret' = [ret EXCEPT ![c] = <<>>]
       ELSE /\ pc' = [pc EXCEPT ![c] = "lower"]
            /\ ret' = ret
  /\ UNCHANGED <<STOP_WORDS, arg, text, words, filtered_words, exc>>

\* text = text.lower()
LowerStep(c) ==
  /\ pc[c] = "lower"
  /\ IF LowerRaises(text[c])
       THEN /\ pc' = [pc EXCEPT ![c] = "raised"]
            /\ exc' = [exc EXCEPT ![c] = "AttributeError"]
            /\ text' = text
       ELSE /\ pc' = [pc EXCEPT ![c] = "sub"]
            /\ exc' = exc
            /\ text' = [text EXCEPT ![c] = Lower(text[c])]
  /\ UNCHANGED <<STOP_WORDS, arg, words, filtered_words, ret>>

\* text = re.sub(f"[{re.escape(string.punctuation)}]", "", text)
SubStep(c) ==
  /\ pc[c] = "sub"
  /\ IF SubRaises(text[c])
       THEN /\ pc' = [pc EXCEPT ![c] = "raised"]
            /\ exc' = [exc EXCEPT ![c] = "TypeError"]
            /\ text' = text
       ELSE /\ pc' = [pc EXCEPT ![c] = "split"]
            /\ exc' = exc
            /\ text' = [text EXCEPT ![c] = Sub(text[c])]
  /\ UNCHANGED <<STOP_WORDS, arg, words, filtered_words, ret>>

\* a words variable declared global: every call shares the one binding
SplitStepGlobal(c) ==
  /\ pc[c] = "split"
  /\ words' = [d \in DOMAIN words |-> Split(text[c].chars)]
  /\ pc' = [pc EXCEPT ![c] = "filter"]
  /\ UNCHANGED <<STOP_WORDS, arg, text, filtered_words, ret, exc>>

\* words = text.split()
SplitStep(c) ==
  /\ pc[c] = "split"
  /\ words' = [words EXCEPT ![c] = Split(text[c].chars)]
  /\ pc' = [pc EXCEPT ![c] = "filter"]
  /\ UNCHANGED <<STOP_WORDS, arg, text, filtered_words, ret, exc>>

\* filtered_words = [w for w in words if w not in STOP_WORDS]
FilterStep(c) ==
  /\ pc[c] = "filter"
  /\ filtered_words' = [filtered_words EXCEPT ![c] = Filter(words[c], STOP_WORDS)]
  /\ pc' = [pc EXCEPT ![c] = "join"]
  /\ UNCHANGED <<STOP_WORDS, arg, text, words, ret, exc>>

\* return " ".join(filtered_words).strip()
ReturnStep(c) ==
  /\ pc[c] = "join"
  /\ ret' = [ret EXCEPT ![c] = Strip(Join(filtered_words[c]))]
  /\ pc' = [pc EXCEPT ![c] = "done"]
  /\ UNCHANGED <<STOP_WORDS, arg, text, words, filtered_words, exc>>

Next ==
  \/ \E c \in Calls : Guard(c)
  \/ \E c \in Calls : LowerStep(c)
  \/ \E c \in Calls : SubStep(c)
  \/ \E c \in Calls : SplitStep(c)
  \/ \E c \in Calls : FilterStep(c)
  \/ \E c \in Calls : ReturnStep(c)

Spec == Init /\ [][Next]_vars

SpecConc == InitConc /\ [][Next]_vars

----------------------------------------------------------------------------
(* Notions the properties are stated in.                                   *)

Done(c) == pc[c] = "done"

StrCall(c) == arg[c].kind = "str"

StopWordSet == {InitialStopWords[i] : i \in DOMAIN InitialStopWords}

\* the outcome of call c, once it has returned or raised
Outcome(c) == [exc |-> exc[c], val |-> ret[c]]

\* the space-delimited tokens of s: the maximal runs without a space
OutputTokens(s) ==
  { SubSeq(s, i, j) : <<i, j>> \in
      { p \in (DOMAIN s) \X (DOMAIN s) :
          /\ p[1] <= p[2]
          /\ \A k \in p[1]..p[2] : s[k] # " "
          /\ (p[1] = 1 \/ s[p[1] - 1] = " ")
          /\ (p[2] = Len(s) \/ s[p[2] + 1] = " ") } }

\* a raw token lowercased with its punctuation deleted
Squeezed(t) == SelectSeq(LowerSeq(t), LAMBDA ch : ch \notin Punctuation)

\* the whitespace-delimited tokens of the raw input of call c
RawTokens(c) == Split(arg[c].chars)

\* the raw tokens of call c, each lowercased and depunctuated on its own
SqueezedTokens(c) == [i \in DOMAIN RawTokens(c) |-> Squeezed(RawTokens(c)[i])]

\* two runs of non-punctuation characters separated only by punctuation
HasInnerPunctuation(t) ==
  \E i, j, k \in DOMAIN t :
    /\ i < j /\ j < k
    /\ t[i] \notin Punctuation
    /\ t[j] \in Punctuation
    /\ t[k] \notin Punctuation

\* the letters of the model's characters that Unicode classes as uppercase
UppercaseLetters ==
  {AsciiUpper[i] : i \in DOMAIN AsciiUpper} \cup {"U+0130", "U+1D400"}

\* the reference pipeline as one left-to-right pass: cur is the token being
\* read, out the output written so far
RefFlush(cur, out) ==
  IF cur = <<>> \/ cur \in StopWordSet THEN out
  ELSE IF out = <<>> THEN cur ELSE out \o <<" ">> \o cur

RECURSIVE RefScan(_, _, _)
RefScan(s, cur, out) ==
  IF s = <<>> THEN RefFlush(cur, out)
  ELSE IF Head(s) \in Whitespace THEN RefScan(Tail(s), <<>>, RefFlush(cur, out))
  ELSE IF Head(s) \in Punctuation THEN RefScan(Tail(s), cur, out)
  ELSE RefScan(Tail(s), cur \o LowerChar(Head(s)), out)

Reference(s) == RefScan(s, <<>>, <<>>)

----------------------------------------------------------------------------
(* The properties.                                                         *)

\* C1: for every string input, clean_text returns what the reference
\* pipeline returns (lowercase, delete punctuation, split on whitespace,
\* drop the 16 stop words, join with one space), and each sample input
\* gives the output recorded for it.
C1_MatchesReference ==
  \A c \in Calls :
    Done(c) /\ StrCall(c) =>
      /\ Len(STOP_WORDS) = 16
      /\ ret[c] = Reference(arg[c].chars)
      /\ \A r \in SampleRuns : arg[c].chars = r[1] => ret[c] = r[2]

C1_Witness ==
  \E c \in Calls : Done(c) /\ arg[c] = Str(In_Cut) /\ ret[c] = Out_Cut

\* C2: cleaning the output of a finished call again returns that output
\* unchanged.
C2_Idempotent ==
  \A c \in Calls : Done(c) => clean_text(Str(ret[c])) = Returned(ret[c])

C2_Witness ==
  \E c \in Calls :
    /\ Done(c) /\ StrCall(c)
    /\ ret[c] # arg[c].chars
    /\ \E i \in DOMAIN ret[c] : ret[c][i] = " "

\* C3: no call ever raises, and a call with a non-string argument returns
\* the empty string.
C3_NeverRaises ==
  \A c \in Calls :
    /\ pc[c] # "raised"
    /\ exc[c] = ""
    /\ Done(c) /\ ~StrCall(c) => ret[c] = <<>>

\* C4 as stated: the output holds no ASCII punctuation character and no
\* uppercase letter.
C4_NoPunctuationNoUppercase ==
  \A c \in Calls :
    Done(c) =>
      \A i \in DOMAIN ret[c] :
        ret[c][i] \notin Punctuation /\ ret[c][i] \notin UppercaseLetters

\* C4 amended: the output holds no ASCII punctuation character, no letter
\* A-Z and no other character that lowercasing would change.
C4_NoPunctuationNoLowerable ==
  \A c \in Calls :
    Done(c) =>
      \A i \in DOMAIN ret[c] :
        /\ ret[c][i] \notin Punctuation
        /\ \A k \in DOMAIN AsciiUpper : ret[c][i] # AsciiUpper[k]
        /\ LowerChar(ret[c][i]) = <<ret[c][i]>>

C4_Witness ==
  \E c \in Calls :
    /\ Done(c) /\ StrCall(c) /\ ret[c] # <<>>
    /\ \E i \in DOMAIN arg[c].chars : arg[c].chars[i] \in Punctuation
    /\ \E i \in DOMAIN arg[c].chars : arg[c].chars[i] \in UppercaseLetters

\* C5: the output neither starts nor ends with whitespace and holds no two
\* consecutive spaces.
C5_SingleSpaced ==
  \A c \in Calls :
    Done(c) =>
      /\ ret[c] # <<>> =>
           ret[c][1] \notin Whitespace /\ ret[c][Len(ret[c])] \notin Whitespace
      /\ \A i \in 1..(Len(ret[c]) - 1) : ~(ret[c][i] = " " /\ ret[c][i + 1] = " ")

C5_Witness ==
  \E c \in Calls : Done(c) /\ arg[c] = Str(In_Edges) /\ ret[c] = Out_Edges

\* C6: no space-delimited token of the output is a stop word, in any
\* letter case.
C6_NoStopWordToken ==
  \A c \in Calls :
    Done(c) =>
      \A t \in OutputTokens(ret[c]) :
        t \notin StopWordSet /\ LowerSeq(t) \notin StopWordSet

C6_Witness ==
  \E c \in Calls : Done(c) /\ arg[c] = Str(In_Upper) /\ ret[c] = Out_Upper

\* C7 as stated: a raw token in which punctuation separates two runs always
\* shows up in the output as one token, the runs concatenated.
C7_ConcatenatedTokenInOutput ==
  \A c \in Calls :
    Done(c) /\ StrCall(c) =>
      \A i \in DOMAIN RawTokens(c) :
        HasInnerPunctuation(RawTokens(c)[i]) =>
          Squeezed(RawTokens(c)[i]) \in OutputTokens(ret[c])

\* C7 amended: such a raw token becomes one word, the runs concatenated,
\* and that word is an output token exactly when it is not a stop word;
\* deleting punctuation never adds a token, and the words are the raw
\* tokens, each depunctuated on its own, without the empty ones.
C7_ConcatenatedUnlessStopWord ==
  \A c \in Calls :
    Done(c) /\ StrCall(c) /\ ~Falsy(arg[c]) =>
      /\ \A i \in DOMAIN RawTokens(c) :
           HasInnerPunctuation(RawTokens(c)[i]) =>
             /\ InList(Squeezed(RawTokens(c)[i]), words[c])
             /\ Squeezed(RawTokens(c)[i]) \in OutputTokens(ret[c])
                  <=> Squeezed(RawTokens(c)[i]) \notin StopWordSet
      /\ Len(words[c]) <= Len(RawTokens(c))
      /\ words[c] = SelectSeq(SqueezedTokens(c), LAMBDA w : w # <<>>)

C7_Witness ==
  \E c \in Calls : Done(c) /\ arg[c] = Str(In_Dont) /\ ret[c] = Out_Dont

\* C8: with calls interleaved in any order, STOP_WORDS keeps its 16 initial
\* entries, the locals of a call hold what they hold when the call runs
\* alone, and every call ends as it ends when run alone.
C8_CallsIsolated ==
  /\ STOP_WORDS = InitialStopWords
  /\ Len(STOP_WORDS) = 16
  /\ \A c \in Calls :
       /\ pc[c] \in {"done", "raised"} => Outcome(c) = clean_text(arg[c])
       /\ pc[c] \in {"guard", "lower"} => text[c] = arg[c]
       /\ pc[c] = "sub" => text[c] = Lower(arg[c])
       /\ pc[c] \in {"split", "filter", "join"} => text[c] = Sub(Lower(arg[c]))
       /\ pc[c] \in {"guard", "lower", "sub", "split", "raised"} =>
            words[c] = <<>> /\ filtered_words[c] = <<>>
       /\ pc[c] \in {"filter", "join"} => words[c] = Split(text[c].chars)
       /\ pc[c] = "filter" => filtered_words[c] = <<>>
       /\ pc[c] = "join" => filtered_words[c] = Filter(words[c], InitialStopWords)

C8_Witness ==
  /\ Cardinality(Calls) = 2
  /\ pc[1] = "done" /\ ret[1] # <<>>
  /\ pc[2] = "filter" /\ words[2] # <<>> /\ words[2] # words[1]

\* C9: the output is the raw tokens, each lowercased and depunctuated and
\* only then tested against the stop words: "help!", "a.m." and "he-lp" are
\* dropped, "I'm" is kept as "im".
C9_FilterAfterNormalising ==
  \A c \in Calls :
    Done(c) /\ StrCall(c) =>
      /\ ret[c] = Join(SelectSeq(SqueezedTokens(c),
                         LAMBDA w : w # <<>> /\ w \notin StopWordSet))
      /\ arg[c].chars \in {In_HelpBang, In_AM, In_HeLp} => ret[c] = <<>>
      /\ arg[c].chars = In_Im => ret[c] = <<"i", "m">>
      /\ arg[c].chars = In_Dont => ret[c] = Out_Dont

C9_Witness ==
  \E c \in Calls : Done(c) /\ arg[c] = Str(In_Im) /\ ret[c] = <<"i", "m">>

\* C10: the joined string has no whitespace to strip: every word is
\* non-empty and free of whitespace, and stripping the joined string
\* returns it unchanged.
C10_StripIsNoOp ==
  \A c \in Calls :
    /\ \A i \in DOMAIN words[c] :
         words[c][i] # <<>> /\ \A k \in DOMAIN words[c][i] : words[c][i][k] \notin Whitespace
    /\ pc[c] \in {"join", "done"} =>
         Strip(Join(filtered_words[c])) = Join(filtered_words[c])
    /\ Done(c) => ret[c] = Join(filtered_words[c])

C10_Witness ==
  \E c \in Calls :
    /\ Done(c) /\ StrCall(c) /\ filtered_words[c] # <<>>
    /\ arg[c].chars[1] \in Whitespace
    /\ arg[c].chars[Len(arg[c].chars)] \in Whitespace

=============================================================================
